---- MODULE Spec2Model ----
(***************************************************************************)
(* Model of loan_approval_app.py: the Streamlit script that collects the   *)
(* applicant's inputs on the Prediction page, derives the financial        *)
(* fields, assembles the feature record and calls the classifier.          *)
(*                                                                         *)
(* Numbers.  Python's int and float values are modelled as exact rational  *)
(* numbers (sign, numerator, denominator) over arbitrary-precision         *)
(* naturals, because (1 + r) ** n with n up to 120 does not fit TLC's      *)
(* integers.  The arithmetic operators return the exact result of the      *)
(* operation; the rounding of IEEE doubles is modelled by Double, which    *)
(* the _double operators apply after each operation.                       *)
(***************************************************************************)
EXTENDS Integers, Sequences, FiniteSets, TLC

(***************************************************************************)
(* Arbitrary-precision naturals: little-endian sequences of limbs in       *)
(* 0..Base-1 without a most-significant zero limb; <<>> is 0.              *)
(***************************************************************************)
Base == 10 ^ 4

RECURSIVE BigOf(_)
BigOf(k) == IF k = 0 THEN <<>> ELSE <<k % Base>> \o BigOf(k \div Base)

RECURSIVE BigStrip(_)
BigStrip(a) ==
    IF a = <<>> THEN <<>>
    ELSE IF a[Len(a)] = 0 THEN BigStrip(SubSeq(a, 1, Len(a) - 1))
    ELSE a

BigLimb(a, i) == IF i <= Len(a) THEN a[i] ELSE 0

\* limbs lo..hi of a + b with the carry in: [s: the limbs, c: the carry out].
\* The range is halved at each step to keep the evaluation shallow.
RECURSIVE BigAddRange(_, _, _, _, _)
BigAddRange(a, b, lo, hi, carry) ==
    IF lo = hi
    THEN LET x == BigLimb(a, lo) + BigLimb(b, lo) + carry
         IN  [s |-> <<x % Base>>, c |-> x \div Base]
    ELSE LET mid == (lo + hi) \div 2
             L == BigAddRange(a, b, lo, mid, carry)
             R == BigAddRange(a, b, mid + 1, hi, L.c)
         IN  [s |-> L.s \o R.s, c |-> R.c]

BigAdd(a, b) ==
    LET n == IF Len(a) >= Len(b) THEN Len(a) ELSE Len(b)
    IN  IF n = 0 THEN <<>>
        ELSE LET r == BigAddRange(a, b, 1, n, 0)
             IN  IF r.c = 0 THEN r.s ELSE Append(r.s, r.c)

\* limbs lo..hi of a - b with the borrow in, for a >= b
RECURSIVE BigSubRange(_, _, _, _, _)
BigSubRange(a, b, lo, hi, borrow) ==
    IF lo = hi
    THEN LET x == a[lo] - BigLimb(b, lo) - borrow
         IN  IF x < 0 THEN [s |-> <<x + Base>>, c |-> 1] ELSE [s |-> <<x>>, c |-> 0]
    ELSE LET mid == (lo + hi) \div 2
             L == BigSubRange(a, b, lo, mid, borrow)
             R == BigSubRange(a, b, mid + 1, hi, L.c)
         IN  [s |-> L.s \o R.s, c |-> R.c]

BigSub(a, b) == IF a = <<>> THEN <<>> ELSE BigStrip(BigSubRange(a, b, 1, Len(a), 0).s)

\* -1, 0, 1 as a < b, a = b, a > b
BigCmp(a, b) ==
    IF Len(a) < Len(b) THEN -1
    ELSE IF Len(a) > Len(b) THEN 1
    ELSE IF a = b THEN 0
    ELSE LET i == CHOOSE k \in 1..Len(a) :
                      a[k] # b[k] /\ \A j \in (k + 1)..Len(a) : a[j] = b[j]
         IN  IF a[i] < b[i] THEN -1 ELSE 1

\* limbs lo..hi of a * s for one limb s, with the carry in
RECURSIVE BigMulLimbRange(_, _, _, _, _)
BigMulLimbRange(a, s, lo, hi, carry) ==
    IF lo = hi
    THEN LET x == a[lo] * s + carry
         IN  [s |-> <<x % Base>>, c |-> x \div Base]
    ELSE LET mid == (lo + hi) \div 2
             L == BigMulLimbRange(a, s, lo, mid, carry)
             R == BigMulLimbRange(a, s, mid + 1, hi, L.c)
         IN  [s |-> L.s \o R.s, c |-> R.c]

BigMulLimb(a, s) ==
    IF s = 0 \/ a = <<>> THEN <<>>
    ELSE LET r == BigMulLimbRange(a, s, 1, Len(a), 0)
         IN  IF r.c = 0 THEN r.s ELSE Append(r.s, r.c)

BigShift(a, k) == IF a = <<>> THEN <<>> ELSE [i \in 1..k |-> 0] \o a

\* a * (limbs lo..hi of b)
RECURSIVE BigMulRange(_, _, _, _)
BigMulRange(a, b, lo, hi) ==
    IF lo = hi THEN BigMulLimb(a, b[lo])
    ELSE LET mid == (lo + hi) \div 2
         IN  BigAdd(BigMulRange(a, b, lo, mid),
                    BigShift(BigMulRange(a, b, mid + 1, hi), mid + 1 - lo))

BigMul(a, b) ==
    IF a = <<>> \/ b = <<>> THEN <<>>
    ELSE IF Len(a) >= Len(b) THEN BigMulRange(a, b, 1, Len(b))
    ELSE BigMulRange(b, a, 1, Len(a))

RECURSIVE BigPow(_, _)
BigPow(a, n) ==
    IF n = 0 THEN <<1>>
    ELSE LET h == BigPow(a, n \div 2)
             sq == BigMul(h, h)
         IN  IF n % 2 = 0 THEN sq ELSE BigMul(sq, a)

\* the value of a natural of at most two limbs, as an integer
BigSmall(a) == BigLimb(a, 1) + Base * BigLimb(a, 2)

RECURSIVE Gcd(_, _)
Gcd(x, y) == IF y = 0 THEN x ELSE Gcd(y, x % y)

(***************************************************************************)
(* Python numbers as exact rationals: [sgn, num, den] with sgn in          *)
(* {-1, 0, 1}, num and den naturals, den > 0, and 0 written 0/1.  A        *)
(* rational whose numerator and denominator both fit two limbs is kept in  *)
(* lowest terms; larger ones are left as computed, so two numbers are      *)
(* compared with NumEq and NumCmp, not with =.                             *)
(* ZeroDivisionError is the exception x / 0 raises; an operation on a      *)
(* raised operand is raised (the expression is abandoned).                 *)
(***************************************************************************)
ZeroDivisionError == [raised |-> "ZeroDivisionError"]

Raised(x) == x = ZeroDivisionError

NumZero == [sgn |-> 0, num |-> <<>>, den |-> <<1>>]

NumMk(sgn, num, den) ==
    IF num = <<>> \/ sgn = 0 THEN NumZero
    ELSE IF Len(num) <= 2 /\ Len(den) <= 2
    THEN LET n == BigSmall(num)
             d == BigSmall(den)
             g == Gcd(n, d)
         IN  [sgn |-> sgn, num |-> BigOf(n \div g), den |-> BigOf(d \div g)]
    ELSE [sgn |-> sgn, num |-> num, den |-> den]

\* the integer k
NumOf(k) ==
    IF k = 0 THEN NumZero
    ELSE IF k < 0 THEN [sgn |-> -1, num |-> BigOf(-k), den |-> <<1>>]
    ELSE [sgn |-> 1, num |-> BigOf(k), den |-> <<1>>]

\* the decimal literal or widget value p / q, for integers p and q > 0
Frac(p, q) ==
    IF p < 0 THEN NumMk(-1, BigOf(-p), BigOf(q)) ELSE NumMk(1, BigOf(p), BigOf(q))

NumNeg(x) == IF Raised(x) THEN ZeroDivisionError ELSE [x EXCEPT !.sgn = -x.sgn]

NumAdd(x, y) ==
    IF Raised(x) \/ Raised(y) THEN ZeroDivisionError
    ELSE IF x.sgn = 0 THEN y
    ELSE IF y.sgn = 0 THEN x
    ELSE LET a == BigMul(x.num, y.den)
             b == BigMul(y.num, x.den)
             d == BigMul(x.den, y.den)
             c == BigCmp(a, b)
         IN  IF x.sgn = y.sgn THEN NumMk(x.sgn, BigAdd(a, b), d)
             ELSE IF c = 0 THEN NumZero
             ELSE IF c > 0 THEN NumMk(x.sgn, BigSub(a, b), d)
             ELSE NumMk(y.sgn, BigSub(b, a), d)

NumSub(x, y) == NumAdd(x, NumNeg(y))

NumMul(x, y) ==
    IF Raised(x) \/ Raised(y) THEN ZeroDivisionError
    ELSE NumMk(x.sgn * y.sgn, BigMul(x.num, y.num), BigMul(x.den, y.den))

\* Python's true division x / y
NumDiv(x, y) ==
    IF Raised(x) \/ Raised(y) THEN ZeroDivisionError
    ELSE IF y.sgn = 0 THEN ZeroDivisionError
    ELSE NumMk(x.sgn * y.sgn, BigMul(x.num, y.den), BigMul(x.den, y.num))

\* x ** n for an integer n >= 0
NumPow(x, n) ==
    IF Raised(x) THEN ZeroDivisionError
    ELSE IF n = 0 THEN NumOf(1)
    ELSE NumMk(IF x.sgn < 0 /\ n % 2 = 0 THEN 1 ELSE x.sgn,
               BigPow(x.num, n), BigPow(x.den, n))

\* -1, 0, 1 as x < y, x = y, x > y (neither raised)
NumCmp(x, y) ==
    IF x.sgn # y.sgn THEN (IF x.sgn < y.sgn THEN -1 ELSE 1)
    ELSE IF x.sgn = 0 THEN 0
    ELSE x.sgn * BigCmp(BigMul(x.num, y.den), BigMul(y.num, x.den))

NumEq(x, y) == ~Raised(x) /\ ~Raised(y) /\ NumCmp(x, y) = 0
NumLt(x, y) == ~Raised(x) /\ ~Raised(y) /\ NumCmp(x, y) < 0
NumLe(x, y) == ~Raised(x) /\ ~Raised(y) /\ NumCmp(x, y) <= 0

(***************************************************************************)
(* IEEE double precision.  Python stores the result of every float         *)
(* operation as the double nearest to the exact result, ties going to the  *)
(* even significand.  Double(x) is that double, as a rational, for an x    *)
(* whose magnitude lies between 2^-67 and 2^53 (no subnormal, no           *)
(* overflow).  It is applied where two results computed in different ways  *)
(* are compared for equality.                                              *)
(***************************************************************************)
\* The powers of two the double format of these magnitudes needs
TwoTo == [k \in 0..120 |-> BigPow(BigOf(2), k)]

\* 2^e as a rational, for an integer e
Pow2(e) ==
    IF e >= 0 THEN [sgn |-> 1, num |-> TwoTo[e], den |-> <<1>>]
    ELSE [sgn |-> 1, num |-> <<1>>, den |-> TwoTo[-e]]

\* The floor of num / den below 2^(bit + 1), given its bits above bit: acc with the
\* bit added if that does not exceed the quotient.
FloorNext(num, den, bit, acc) ==
    CHOOSE r \in {IF BigCmp(BigMul(cand, den), num) <= 0 THEN cand ELSE acc :
                     cand \in {BigAdd(acc, TwoTo[bit])}} : TRUE

\* The floor of num / den below 2^(bit + 1): its bits are tried from the highest.
RECURSIVE FloorBits(_, _, _, _)
FloorBits(num, den, bit, acc) ==
    IF bit < 0 THEN acc
    ELSE CHOOSE r \in {FloorBits(num, den, bit - 1, next) :
                          next \in {FloorNext(num, den, bit, acc)}} : TRUE

\* The e with 2^52 <= |v| * 2^e < 2^53
Exponent(v) ==
    CHOOSE k \in 0..120 :
        /\ NumLe(Pow2(52), NumMul([v EXCEPT !.sgn = 1], Pow2(k)))
        /\ NumLt(NumMul([v EXCEPT !.sgn = 1], Pow2(k)), Pow2(53))

\* q or q + 1, as y = |v| * 2^e lies nearer; q if it is even and y lies halfway.
RoundQuotient(sgn, e, y, q) ==
    LET rest == BigSub(y.num, BigMul(q, y.den))
        half == BigCmp(BigMulLimb(rest, 2), y.den)
        odd == BigLimb(q, 1) % 2 = 1
    IN  [sgn |-> sgn,
         num |-> IF half > 0 \/ (half = 0 /\ odd) THEN BigAdd(q, <<1>>) ELSE q,
         den |-> Pow2(e).num]

RoundScaled(sgn, e, y) ==
    CHOOSE r \in {RoundQuotient(sgn, e, y, q) :
                     q \in {FloorBits(y.num, y.den, 52, <<>>)}} : TRUE

RoundAt(v, e) ==
    CHOOSE r \in {RoundScaled(v.sgn, e, y) :
                     y \in {NumMul([v EXCEPT !.sgn = 1], Pow2(e))}} : TRUE

RoundValue(v) ==
    IF Raised(v) THEN ZeroDivisionError
    ELSE IF v.sgn = 0 THEN NumZero
    ELSE CHOOSE r \in {RoundAt(v, e) : e \in {Exponent(v)}} : TRUE

\* The double nearest to x; x is evaluated once.
Double(x) == CHOOSE r \in {RoundValue(v) : v \in {x}} : TRUE

(***************************************************************************)
(* The derived fields of the Prediction page, one operator per assignment  *)
(* of the script.  Integer widget values are integers; the results of /    *)
(* and the slider values with a float step are rationals.                  *)
(***************************************************************************)
\* Mutants of monthly_income: floor division, and the operands swapped.
M_monthly_income_floor(annual_income) == NumOf(annual_income \div 12)

M_monthly_income_swapped(annual_income) == NumDiv(NumOf(12), NumOf(annual_income))

\* monthly_income = annual_income / 12
monthly_income(annual_income) == NumDiv(NumOf(annual_income), NumOf(12))

\* Mutant of net_worth: floored at 0.
M_net_worth_floored(total_assets, total_liabilities) ==
    IF total_assets > total_liabilities THEN total_assets - total_liabilities ELSE 0

\* net_worth = total_assets - total_liabilities
net_worth(total_assets, total_liabilities) == total_assets - total_liabilities

\* Mutant of debt_to_income: the annual income is not brought to a month.
M_debt_to_income_annual(monthly_debt, annual_income) ==
    IF annual_income > 0
    THEN NumDiv(NumOf(monthly_debt), NumOf(annual_income))
    ELSE NumOf(0)

\* Mutant of debt_to_income: the division is not guarded.
M_debt_to_income_unguarded(monthly_debt, annual_income) ==
    NumDiv(NumOf(monthly_debt), NumDiv(NumOf(annual_income), NumOf(12)))

\* debt_to_income = monthly_debt / (annual_income / 12) if annual_income > 0 else 0
debt_to_income(monthly_debt, annual_income) ==
    IF annual_income > 0
    THEN NumDiv(NumOf(monthly_debt), NumDiv(NumOf(annual_income), NumOf(12)))
    ELSE NumOf(0)

\* Mutant of total_debt_to_income: the monthly debt is not brought to a year.
M_total_debt_to_income_monthly(monthly_debt, annual_income) ==
    IF annual_income > 0
    THEN NumDiv(NumOf(monthly_debt), NumOf(annual_income))
    ELSE NumOf(0)

\* total_debt_to_income = (monthly_debt * 12) / annual_income if annual_income > 0 else 0
total_debt_to_income(monthly_debt, annual_income) ==
    IF annual_income > 0
    THEN NumDiv(NumOf(monthly_debt * 12), NumOf(annual_income))
    ELSE NumOf(0)

\* debt_to_income as the doubles the script computes: annual_income / 12 is rounded,
\* and so is monthly_debt divided by it.
debt_to_income_double(monthly_debt, annual_income) ==
    IF annual_income > 0
    THEN Double(NumDiv(NumOf(monthly_debt),
                       Double(NumDiv(NumOf(annual_income), NumOf(12)))))
    ELSE NumOf(0)

\* Mutant of total_debt_to_income_double: the monthly debt is not brought to a year.
M_total_debt_to_income_double_monthly(monthly_debt, annual_income) ==
    IF annual_income > 0
    THEN Double(NumDiv(NumOf(monthly_debt), NumOf(annual_income)))
    ELSE NumOf(0)

\* total_debt_to_income as the double the script computes: monthly_debt * 12 is an
\* exact integer and the one division is rounded.
total_debt_to_income_double(monthly_debt, annual_income) ==
    IF annual_income > 0
    THEN Double(NumDiv(NumOf(monthly_debt * 12), NumOf(annual_income)))
    ELSE NumOf(0)

\* Mutant of interest_rate_adjustment: the difference is not brought to hundreds.
M_interest_rate_adjustment_no_scale(credit_score) ==
    NumMul(NumOf(700 - credit_score), Frac(5, 10))

\* Mutant of interest_rate_adjustment: the difference taken the other way round.
M_interest_rate_adjustment_sign(credit_score) ==
    NumMul(NumDiv(NumOf(credit_score - 700), NumOf(100)), Frac(5, 10))

\* interest_rate_adjustment = (700 - credit_score) / 100 * 0.5
interest_rate_adjustment(credit_score) ==
    NumMul(NumDiv(NumOf(700 - credit_score), NumOf(100)), Frac(5, 10))

\* Mutant of interest_rate: clamped to the slider's 3.0 .. 15.0.
M_interest_rate_clamped(base_interest_rate, credit_score) ==
    LET x == NumAdd(base_interest_rate,
                    NumMul(NumDiv(NumOf(700 - credit_score), NumOf(100)), Frac(5, 10)))
    IN  IF NumLt(x, NumOf(3)) THEN NumOf(3)
        ELSE IF NumLt(NumOf(15), x) THEN NumOf(15)
        ELSE x

\* interest_rate = base_interest_rate + interest_rate_adjustment
interest_rate(base_interest_rate, credit_score) ==
    NumAdd(base_interest_rate, interest_rate_adjustment(credit_score))

\* Mutant of monthly_rate: the percentage is not brought to a fraction.
M_monthly_rate_no_percent(rate) == NumDiv(rate, NumOf(12))

\* monthly_rate = interest_rate / 100 / 12
monthly_rate(rate) == NumDiv(NumDiv(rate, NumOf(100)), NumOf(12))

\* Mutants of monthly_payment: the "- 1" of the denominator left out, and the
\* annuity formula evaluated whatever the rate.
M_monthly_payment_no_minus_one(loan_amount, rate, num_payments) ==
    IF NumLt(NumOf(0), rate)
    THEN NumDiv(NumMul(NumOf(loan_amount),
                       NumMul(rate, NumPow(NumAdd(NumOf(1), rate), num_payments))),
                NumPow(NumAdd(NumOf(1), rate), num_payments))
    ELSE NumDiv(NumOf(loan_amount), NumOf(num_payments))

M_monthly_payment_unguarded(loan_amount, rate, num_payments) ==
    NumDiv(NumMul(NumOf(loan_amount),
                  NumMul(rate, NumPow(NumAdd(NumOf(1), rate), num_payments))),
           NumSub(NumPow(NumAdd(NumOf(1), rate), num_payments), NumOf(1)))

\* monthly_payment = loan_amount * (monthly_rate * (1 + monthly_rate)**num_payments) /
\*                   ((1 + monthly_rate)**num_payments - 1)
\*                   if monthly_rate > 0 else loan_amount / num_payments
\* Only the chosen branch of the conditional expression is evaluated.
\* Mutant of monthly_payment: the fallback is taken for a rate of 0 only.
M_monthly_payment_nonzero_guard(loan_amount, rate, num_payments) ==
    IF ~NumEq(rate, NumOf(0))
    THEN NumDiv(NumMul(NumOf(loan_amount),
                       NumMul(rate, NumPow(NumAdd(NumOf(1), rate), num_payments))),
                NumSub(NumPow(NumAdd(NumOf(1), rate), num_payments), NumOf(1)))
    ELSE NumDiv(NumOf(loan_amount), NumOf(num_payments))

monthly_payment(loan_amount, rate, num_payments) ==
    IF NumLt(NumOf(0), rate)
    THEN NumDiv(NumMul(NumOf(loan_amount),
                       NumMul(rate, NumPow(NumAdd(NumOf(1), rate), num_payments))),
                NumSub(NumPow(NumAdd(NumOf(1), rate), num_payments), NumOf(1)))
    ELSE NumDiv(NumOf(loan_amount), NumOf(num_payments))

(***************************************************************************)
(* The state.  Streamlit runs the whole script once per user event (a      *)
(* page selection, a widget edit, a button press); between runs it keeps   *)
(* the widget values and the two caches.                                   *)
(***************************************************************************)
\* monthly_payment as the doubles the script computes: every operation is rounded;
\* ** is taken to return the double nearest to the exact power, which it does
\* whenever the power is itself a double ((1.0) ** n, x ** 1).
monthly_payment_double(loan_amount, rate, num_payments) ==
    IF NumLt(NumOf(0), rate)
    THEN LET power == Double(NumPow(Double(NumAdd(NumOf(1), rate)), num_payments))
         IN  Double(NumDiv(Double(NumMul(NumOf(loan_amount), Double(NumMul(rate, power)))),
                           Double(NumSub(power, NumOf(1)))))
    ELSE Double(NumDiv(NumOf(loan_amount), NumOf(num_payments)))

VARIABLES
    page,           \* the sidebar radio's selection
    form,           \* the values of the Prediction page's input widgets
    predict_button, \* the value st.button returns in the current run
    pc,             \* "rerun": an event has queued a run; "idle": the run is over
    model_file,     \* whether CatBoost.pkl exists
    data_file,      \* what Loan_Data_Cleaned.csv holds, or NoFile
    model_cache,    \* st.cache_resource's entry for load_model
    data_cache,     \* st.cache_data's entry for load_data
    file_reads,     \* how often joblib.load and pd.read_csv were called
    rendered,       \* the page branch the current run took
    shown,          \* the elements the current run has displayed
    derived,        \* the derived-field variables of the current run
    input_data,     \* the feature record built by the current run
    calls,          \* the classifier calls of the current run, in order
    summary,        \* the Application Summary the current run has displayed
    gauge,          \* the probability gauge the current run has displayed
    stats,          \* the dataset figures the Presentation page has displayed
    calc            \* the latest direct evaluation of a derived-field expression

vars == <<page, form, predict_button, pc, model_file, data_file, model_cache,
          data_cache, file_reads, rendered, shown, derived, input_data, calls,
          summary, gauge, stats, calc>>

Pages == {"Home", "EDA", "Prediction", "Presentation"}

MaritalStatusOptions == <<"Single", "Married", "Divorced">>
EducationLevelOptions == <<"High School", "Associate", "Bachelor", "Master", "Doctorate">>
HomeOwnershipOptions == <<"Rent", "Own", "Mortgage">>
EmploymentStatusOptions == <<"Employed", "Self-Employed", "Unemployed">>
LoanDurationOptions == <<12, 24, 36, 48, 60, 72, 84, 96, 108, 120>>
LoanPurposeOptions == <<"Home", "Auto", "Education", "Business", "Other">>

\* Each widget's initial value: the value= argument, or a selectbox's first option.
FormDefault ==
    [age |-> 35,
     marital_status |-> MaritalStatusOptions[1],
     num_dependents |-> 0,
     education_level |-> EducationLevelOptions[1],
     home_ownership |-> HomeOwnershipOptions[1],
     employment_status |-> EmploymentStatusOptions[1],
     experience |-> 10,
     job_tenure |-> 5,
     annual_income |-> 60000,
     savings_balance |-> 10000,
     checking_balance |-> 5000,
     total_assets |-> 50000,
     total_liabilities |-> 20000,
     credit_score |-> 600,
     credit_card_util |-> Frac(30, 100),
     num_open_credit |-> 3,
     monthly_debt |-> 400,
     num_inquiries |-> 2,
     length_credit_history |-> 10,
     payment_history |-> 85,
     utility_bills_payment |-> 90,
     bankruptcy |-> 0,
     previous_defaults |-> 0,
     loan_amount |-> 25000,
     loan_duration |-> LoanDurationOptions[1],
     loan_purpose |-> LoanPurposeOptions[1],
     base_interest_rate |-> Frac(65, 10)]

Widgets == DOMAIN FormDefault

\* The range each widget accepts: min_value..max_value, or the options.
\* The two float sliders are given in steps: hundredths and tenths.
WidgetAccepts(w, v) ==
    CASE w = "age" -> v \in 18..80
      [] w = "marital_status" -> \E i \in DOMAIN MaritalStatusOptions : v = MaritalStatusOptions[i]
      [] w = "num_dependents" -> v \in 0..5
      [] w = "education_level" -> \E i \in DOMAIN EducationLevelOptions : v = EducationLevelOptions[i]
      [] w = "home_ownership" -> \E i \in DOMAIN HomeOwnershipOptions : v = HomeOwnershipOptions[i]
      [] w = "employment_status" -> \E i \in DOMAIN EmploymentStatusOptions : v = EmploymentStatusOptions[i]
      [] w = "experience" -> v \in 0..61
      [] w = "job_tenure" -> v \in 0..40
      [] w = "annual_income" -> v \in 15000..500000
      [] w = "savings_balance" -> v \in 0..500000
      [] w = "checking_balance" -> v \in 0..200000
      [] w = "total_assets" -> v \in 0..1000000
      [] w = "total_liabilities" -> v \in 0..500000
      [] w = "credit_score" -> v \in 343..712
      [] w = "credit_card_util" -> \E k \in 0..100 : v = Frac(k, 100)
      [] w = "num_open_credit" -> v \in 0..20
      [] w = "monthly_debt" -> v \in 50..3000
      [] w = "num_inquiries" -> v \in 0..20
      [] w = "length_credit_history" -> v \in 0..50
      [] w = "payment_history" -> v \in 0..100
      [] w = "utility_bills_payment" -> v \in 0..100
      [] w = "bankruptcy" -> v \in {0, 1}
      [] w = "previous_defaults" -> v \in {0, 1}
      [] w = "loan_amount" -> v \in 3674..200000
      [] w = "loan_duration" -> \E i \in DOMAIN LoanDurationOptions : v = LoanDurationOptions[i]
      [] w = "loan_purpose" -> \E i \in DOMAIN LoanPurposeOptions : v = LoanPurposeOptions[i]
      [] w = "base_interest_rate" -> \E k \in 30..150 : v = Frac(k, 10)

\* The values the model's user enters into each widget.
Entered(w) ==
    CASE w = "age" -> {80}
      [] w = "marital_status" -> {"Married"}
      [] w = "num_dependents" -> {5}
      [] w = "education_level" -> {"Doctorate"}
      [] w = "home_ownership" -> {"Mortgage"}
      [] w = "employment_status" -> {"Self-Employed"}
      [] w = "experience" -> {61}
      [] w = "job_tenure" -> {40}
      [] w = "annual_income" -> {15000, 60000, 500000}
      [] w = "savings_balance" -> {0}
      [] w = "checking_balance" -> {0}
      [] w = "total_assets" -> {10000, 20000, 50000}
      [] w = "total_liabilities" -> {20000, 25000}
      [] w = "credit_score" -> {343, 600, 712}
      [] w = "credit_card_util" -> {Frac(100, 100)}
      [] w = "num_open_credit" -> {20}
      [] w = "monthly_debt" -> {400, 1800, 3000}
      [] w = "num_inquiries" -> {20}
      [] w = "length_credit_history" -> {50}
      [] w = "payment_history" -> {100}
      [] w = "utility_bills_payment" -> {0}
      [] w = "bankruptcy" -> {1}
      [] w = "previous_defaults" -> {1}
      [] w = "loan_amount" -> {3674, 25000, 200000}
      [] w = "loan_duration" -> {12, 60}
      [] w = "loan_purpose" -> {"Business"}
      [] w = "base_interest_rate" -> {Frac(30, 10), Frac(65, 10), Frac(150, 10)}

\* At most this many widgets hold a value other than their initial one.
MaxEdited == 1

Edited(f) == {w \in Widgets : f[w] # FormDefault[w]}

(***************************************************************************)
(* The Prediction page's script, from the widget values to the feature     *)
(* record.                                                                 *)
(***************************************************************************)
\* monthly_payment on every (loan_amount, monthly_rate, num_payments) the form can
\* hold, evaluated once: the powers are costly to evaluate anew in every run.
MonthlyPaymentArgs ==
    {<<la, monthly_rate(interest_rate(b, cs)), n>> :
        la \in Entered("loan_amount") \cup {FormDefault.loan_amount},
        b \in Entered("base_interest_rate") \cup {FormDefault.base_interest_rate},
        cs \in Entered("credit_score") \cup {FormDefault.credit_score},
        n \in Entered("loan_duration") \cup {FormDefault.loan_duration}}

MonthlyPaymentOf == [a \in MonthlyPaymentArgs |-> monthly_payment(a[1], a[2], a[3])]

NoLocals == [none |-> TRUE]
NoRecord == [none |-> TRUE]

\* The derived-field variables after the four tabs have run on widget values f.
Locals(f) ==
    LET ir == interest_rate(f.base_interest_rate, f.credit_score)
        mr == monthly_rate(ir)
    IN  [monthly_income |-> monthly_income(f.annual_income),
         net_worth |-> net_worth(f.total_assets, f.total_liabilities),
         debt_to_income |-> debt_to_income(f.monthly_debt, f.annual_income),
         total_debt_to_income |-> total_debt_to_income(f.monthly_debt, f.annual_income),
         interest_rate_adjustment |-> interest_rate_adjustment(f.credit_score),
         interest_rate |-> ir,
         monthly_rate |-> mr,
         num_payments |-> f.loan_duration,
         monthly_payment |-> MonthlyPaymentOf[<<f.loan_amount, mr, f.loan_duration>>]]

\* An uncaught exception in the tabs ends the run there.
LocalsRaised(d) == \E k \in DOMAIN d \ {"net_worth", "num_payments"} : Raised(d[k])

\* Mutant of InputDataItems: the last key written as an earlier one.
M_InputDataItems_duplicate_key(f, d) ==
    << <<"Age", f.age>>,
       <<"AnnualIncome", f.annual_income>>,
       <<"CreditScore", f.credit_score>>,
       <<"EmploymentStatus", f.employment_status>>,
       <<"EducationLevel", f.education_level>>,
       <<"Experience", f.experience>>,
       <<"LoanAmount", f.loan_amount>>,
       <<"LoanDuration", f.loan_duration>>,
       <<"MaritalStatus", f.marital_status>>,
       <<"NumberOfDependents", f.num_dependents>>,
       <<"HomeOwnershipStatus", f.home_ownership>>,
       <<"MonthlyDebtPayments", f.monthly_debt>>,
       <<"CreditCardUtilizationRate", f.credit_card_util>>,
       <<"NumberOfOpenCreditLines", f.num_open_credit>>,
       <<"NumberOfCreditInquiries", f.num_inquiries>>,
       <<"DebtToIncomeRatio", d.debt_to_income>>,
       <<"BankruptcyHistory", f.bankruptcy>>,
       <<"LoanPurpose", f.loan_purpose>>,
       <<"PreviousLoanDefaults", f.previous_defaults>>,
       <<"PaymentHistory", NumDiv(NumOf(f.payment_history), NumOf(100))>>,
       <<"LengthOfCreditHistory", f.length_credit_history>>,
       <<"SavingsAccountBalance", f.savings_balance>>,
       <<"CheckingAccountBalance", f.checking_balance>>,
       <<"TotalAssets", f.total_assets>>,
       <<"TotalLiabilities", f.total_liabilities>>,
       <<"MonthlyIncome", d.monthly_income>>,
       <<"UtilityBillsPaymentHistory", NumDiv(NumOf(f.utility_bills_payment), NumOf(100))>>,
       <<"JobTenure", f.job_tenure>>,
       <<"NetWorth", d.net_worth>>,
       <<"BaseInterestRate", f.base_interest_rate>>,
       <<"InterestRate", d.interest_rate>>,
       <<"MonthlyLoanPayment", d.monthly_payment>>,
       <<"DebtToIncomeRatio", d.total_debt_to_income>> >>

\* The dict literal handed to pd.DataFrame: its key: [value] items in source order.
InputDataItems(f, d) ==
    << <<"Age", f.age>>,
       <<"AnnualIncome", f.annual_income>>,
       <<"CreditScore", f.credit_score>>,
       <<"EmploymentStatus", f.employment_status>>,
       <<"EducationLevel", f.education_level>>,
       <<"Experience", f.experience>>,
       <<"LoanAmount", f.loan_amount>>,
       <<"LoanDuration", f.loan_duration>>,
       <<"MaritalStatus", f.marital_status>>,
       <<"NumberOfDependents", f.num_dependents>>,
       <<"HomeOwnershipStatus", f.home_ownership>>,
       <<"MonthlyDebtPayments", f.monthly_debt>>,
       <<"CreditCardUtilizationRate", f.credit_card_util>>,
       <<"NumberOfOpenCreditLines", f.num_open_credit>>,
       <<"NumberOfCreditInquiries", f.num_inquiries>>,
       <<"DebtToIncomeRatio", d.debt_to_income>>,
       <<"BankruptcyHistory", f.bankruptcy>>,
       <<"LoanPurpose", f.loan_purpose>>,
       <<"PreviousLoanDefaults", f.previous_defaults>>,
       <<"PaymentHistory", NumDiv(NumOf(f.payment_history), NumOf(100))>>,
       <<"LengthOfCreditHistory", f.length_credit_history>>,
       <<"SavingsAccountBalance", f.savings_balance>>,
       <<"CheckingAccountBalance", f.checking_balance>>,
       <<"TotalAssets", f.total_assets>>,
       <<"TotalLiabilities", f.total_liabilities>>,
       <<"MonthlyIncome", d.monthly_income>>,
       <<"UtilityBillsPaymentHistory", NumDiv(NumOf(f.utility_bills_payment), NumOf(100))>>,
       <<"JobTenure", f.job_tenure>>,
       <<"NetWorth", d.net_worth>>,
       <<"BaseInterestRate", f.base_interest_rate>>,
       <<"InterestRate", d.interest_rate>>,
       <<"MonthlyLoanPayment", d.monthly_payment>>,
       <<"TotalDebtToIncomeRatio", d.total_debt_to_income>> >>

\* A dict literal keeps one entry per key: the last item with that key.
DictOf(items) ==
    [k \in {items[i][1] : i \in DOMAIN items} |->
        LET last == CHOOSE i \in DOMAIN items :
                        /\ items[i][1] = k
                        /\ \A j \in DOMAIN items : items[j][1] = k => j <= i
        IN  items[last][2]]

\* Mutant of BuildInputData: the payment history score is passed as entered.
M_BuildInputData_raw_score(f, d) ==
    [DictOf(InputDataItems(f, d)) EXCEPT !.PaymentHistory = NumOf(f.payment_history)]

\* Mutant of BuildInputData: the utility bills score is passed as entered.
M_BuildInputData_raw_utility(f, d) ==
    [DictOf(InputDataItems(f, d)) EXCEPT
        !.UtilityBillsPaymentHistory = NumOf(f.utility_bills_payment)]

\* Mutant of BuildInputData: the interest rate adjustment is passed as a column too.
M_BuildInputData_adjustment_column(f, d) ==
    DictOf(Append(InputDataItems(f, d),
                  <<"InterestRateAdjustment", d.interest_rate_adjustment>>))

\* The one-row DataFrame: its columns are the dict's keys.
BuildInputData(f, d) == DictOf(InputDataItems(f, d))

\* The column of the dict literal that each widget's variable is written to.
InputColumn ==
    [age |-> "Age",
     marital_status |-> "MaritalStatus",
     num_dependents |-> "NumberOfDependents",
     education_level |-> "EducationLevel",
     home_ownership |-> "HomeOwnershipStatus",
     employment_status |-> "EmploymentStatus",
     experience |-> "Experience",
     job_tenure |-> "JobTenure",
     annual_income |-> "AnnualIncome",
     savings_balance |-> "SavingsAccountBalance",
     checking_balance |-> "CheckingAccountBalance",
     total_assets |-> "TotalAssets",
     total_liabilities |-> "TotalLiabilities",
     credit_score |-> "CreditScore",
     credit_card_util |-> "CreditCardUtilizationRate",
     num_open_credit |-> "NumberOfOpenCreditLines",
     monthly_debt |-> "MonthlyDebtPayments",
     num_inquiries |-> "NumberOfCreditInquiries",
     length_credit_history |-> "LengthOfCreditHistory",
     payment_history |-> "PaymentHistory",
     utility_bills_payment |-> "UtilityBillsPaymentHistory",
     bankruptcy |-> "BankruptcyHistory",
     previous_defaults |-> "PreviousLoanDefaults",
     loan_amount |-> "LoanAmount",
     loan_duration |-> "LoanDuration",
     loan_purpose |-> "LoanPurpose",
     base_interest_rate |-> "BaseInterestRate"]

\* The column of the dict literal that each derived-field variable is written to;
\* interest_rate_adjustment, monthly_rate and num_payments are written to none.
DerivedColumn ==
    [monthly_income |-> "MonthlyIncome",
     net_worth |-> "NetWorth",
     debt_to_income |-> "DebtToIncomeRatio",
     total_debt_to_income |-> "TotalDebtToIncomeRatio",
     interest_rate |-> "InterestRate",
     monthly_payment |-> "MonthlyLoanPayment"]

\* The widgets whose variable the dict literal divides by 100.
ScaledWidgets == {"payment_history", "utility_bills_payment"}

(***************************************************************************)
(* The cached loaders.  The decorator runs the function on the first call  *)
(* and returns the stored value, None included, on every later call.       *)
(***************************************************************************)
\* The datasets the CSV may hold: its row count and its count of approved rows.
Datasets == {[rows |-> 4, approved |-> 1]}

NoFile == [missing |-> TRUE]
Unset == [unset |-> TRUE]
None == [none |-> TRUE]

\* Mutant of LoadModel: the missing file is not caught and a model is returned.
M_LoadModel_unchecked == IF model_cache # "unset" THEN model_cache ELSE "model"

\* load_model()'s return value in this run
LoadModel == IF model_cache # "unset" THEN model_cache
             ELSE IF model_file THEN "model" ELSE "None"

\* load_data()'s return value in this run
LoadData == IF data_cache # Unset THEN data_cache
            ELSE IF data_file = NoFile THEN None ELSE data_file

CallLoadModel ==
    /\ model_cache' = LoadModel
    /\ file_reads' = IF model_cache = "unset"
                     THEN [file_reads EXCEPT !.model = @ + 1] ELSE file_reads
    /\ UNCHANGED data_cache

\* Mutant of CallLoadData: no cache, the file is read on every call.
M_CallLoadData_uncached ==
    /\ data_cache' = IF data_file = NoFile THEN None ELSE data_file
    /\ file_reads' = [file_reads EXCEPT !.data = @ + 1]
    /\ UNCHANGED model_cache

CallLoadData ==
    /\ data_cache' = LoadData
    /\ file_reads' = IF data_cache = Unset
                     THEN [file_reads EXCEPT !.data = @ + 1] ELSE file_reads
    /\ UNCHANGED model_cache

(***************************************************************************)
(* The classifier is opaque: predict returns 0 or 1 or raises, and         *)
(* predict_proba returns [p0, p1] with p0 + p1 = 1 or raises.              *)
(***************************************************************************)
Labels == {0, 1}
Probabilities == {Frac(2, 10), Frac(8, 10)}

PredictCall(arg, raised, label) ==
    [fn |-> "predict", arg |-> arg, raised |-> raised, result |-> label]

\* Mutant of PredictProbaCall: the record of the widgets' initial values, built once,
\* is passed instead of the one just built.
M_PredictProbaCall_kept_record(arg, raised, p1) ==
    [fn |-> "predict_proba", arg |-> BuildInputData(FormDefault, Locals(FormDefault)),
     raised |-> raised, result |-> <<NumSub(NumOf(1), p1), p1>>]

PredictProbaCall(arg, raised, p1) ==
    [fn |-> "predict_proba", arg |-> arg, raised |-> raised,
     result |-> <<NumSub(NumOf(1), p1), p1>>]

NoSummary == [none |-> TRUE]
NoStats == [none |-> TRUE]
NoGauge == [none |-> TRUE]

\* Mutant of Summary: a net worth of 0 is labelled as a positive one.
M_Summary_zero_positive(f, d) ==
    [credit_score |-> IF f.credit_score >= 600 THEN "Good" ELSE "Fair",
     debt_to_income |-> IF NumLt(d.debt_to_income, Frac(36, 100)) THEN "Good" ELSE "High",
     net_worth |-> IF d.net_worth >= 0 THEN "Positive" ELSE "Negative"]

\* The deltas of the Application Summary metrics.
Summary(f, d) ==
    [credit_score |-> IF f.credit_score >= 600 THEN "Good" ELSE "Fair",
     debt_to_income |-> IF NumLt(d.debt_to_income, Frac(36, 100)) THEN "Good" ELSE "High",
     net_worth |-> IF d.net_worth > 0 THEN "Positive" ELSE "Negative"]

\* The probability gauge: approval_prob = prediction_proba[1] * 100 and the bar colour.
Gauge(prediction, proba) ==
    [value |-> NumMul(proba[2], NumOf(100)),
     bar |-> IF prediction = 1 THEN "darkgreen" ELSE "darkred"]

(***************************************************************************)
(* User events.  Each queues one run of the script; what the previous run  *)
(* displayed is stale from then on.                                        *)
(***************************************************************************)
StartRun ==
    /\ pc' = "rerun"
    /\ rendered' = "none"
    /\ shown' = {}
    /\ derived' = NoLocals
    /\ input_data' = NoRecord
    /\ calls' = <<>>
    /\ summary' = NoSummary
    /\ gauge' = NoGauge
    /\ stats' = NoStats
    /\ UNCHANGED <<model_file, data_file, model_cache, data_cache, file_reads, calc>>

\* The user picks another page in the sidebar radio.
SelectPage(p) ==
    /\ pc = "idle"
    /\ p # page
    /\ page' = p
    /\ predict_button' = FALSE
    /\ UNCHANGED form
    /\ StartRun

\* The user changes one input widget of the displayed form.
SetInput(w, v) ==
    /\ pc = "idle"
    /\ "form" \in shown
    /\ v # form[w]
    /\ WidgetAccepts(w, v)
    /\ form' = [form EXCEPT ![w] = v]
    /\ Cardinality(Edited(form')) <= MaxEdited
    /\ predict_button' = FALSE
    /\ UNCHANGED page
    /\ StartRun

\* The user presses "Predict Loan Approval".
PressPredict ==
    /\ pc = "idle"
    /\ "predict_button" \in shown
    /\ predict_button' = TRUE
    /\ UNCHANGED <<page, form>>
    /\ StartRun

(***************************************************************************)
(* One run of the script, top to bottom: one action per branch of the      *)
(* page selection.  A widget that a run does not render loses its value:   *)
(* it is created anew, with its initial value, when it is next rendered.   *)
(***************************************************************************)
NoPrediction ==
    /\ derived' = NoLocals
    /\ input_data' = NoRecord
    /\ calls' = <<>>
    /\ summary' = NoSummary
    /\ gauge' = NoGauge

\* Mutant of RunHome: the dataset is loaded for the page.
M_RunHome_loads_data ==
    /\ pc = "rerun"
    /\ page = "Home"
    /\ pc' = "idle"
    /\ rendered' = "Home"
    /\ CallLoadData
    /\ shown' = {"home"}
    /\ form' = FormDefault
    /\ stats' = NoStats
    /\ NoPrediction
    /\ UNCHANGED <<page, predict_button, model_file, data_file, calc>>

RunHome ==
    /\ pc = "rerun"
    /\ page = "Home"
    /\ pc' = "idle"
    /\ rendered' = "Home"
    /\ shown' = {"home"}
    /\ form' = FormDefault
    /\ stats' = NoStats
    /\ NoPrediction
    /\ UNCHANGED <<page, predict_button, model_file, data_file, model_cache,
                   data_cache, file_reads, calc>>

RunEDA ==
    /\ pc = "rerun"
    /\ page = "EDA"
    /\ pc' = "idle"
    /\ rendered' = "EDA"
    /\ CallLoadData
    /\ shown' = IF LoadData # None
                THEN {"eda_tabs", "eda_metrics", "eda_charts"}
                ELSE {"load_data_warning", "eda_error"}
    /\ form' = FormDefault
    /\ stats' = NoStats
    /\ NoPrediction
    /\ UNCHANGED <<page, predict_button, model_file, data_file, calc>>

\* Mutant of RunPresentation: without the dataset the figures are left out.
M_RunPresentation_no_fallback ==
    /\ pc = "rerun"
    /\ page = "Presentation"
    /\ pc' = "idle"
    /\ rendered' = "Presentation"
    /\ CallLoadData
    /\ shown' = IF LoadData # None
                THEN {"presentation_tabs"}
                ELSE {"load_data_warning", "presentation_tabs"}
    /\ stats' = IF LoadData # None
                THEN [total_records |-> LoadData.rows,
                      approval_rate |->
                          NumMul(NumDiv(NumOf(LoadData.approved), NumOf(LoadData.rows)),
                                 NumOf(100))]
                ELSE NoStats
    /\ form' = FormDefault
    /\ NoPrediction
    /\ UNCHANGED <<page, predict_button, model_file, data_file, calc>>

RunPresentation ==
    /\ pc = "rerun"
    /\ page = "Presentation"
    /\ pc' = "idle"
    /\ rendered' = "Presentation"
    /\ CallLoadData
    /\ shown' = IF LoadData # None
                THEN {"presentation_tabs"}
                ELSE {"load_data_warning", "presentation_tabs"}
    /\ stats' = IF LoadData # None
                THEN [total_records |-> LoadData.rows,
                      approval_rate |->
                          NumMul(NumDiv(NumOf(LoadData.approved), NumOf(LoadData.rows)),
                                 NumOf(100))]
                ELSE [total_records |-> 20000, approval_rate |-> Frac(239, 10)]
    /\ form' = FormDefault
    /\ NoPrediction
    /\ UNCHANGED <<page, predict_button, model_file, data_file, calc>>

\* load_model() returned None: the else branch of "if model is not None"
RunPredictionNoModel ==
    /\ pc = "rerun"
    /\ page = "Prediction"
    /\ LoadModel = "None"
    /\ pc' = "idle"
    /\ rendered' = "Prediction"
    /\ CallLoadModel
    /\ shown' = {"load_model_error", "model_error"}
    /\ form' = FormDefault
    /\ stats' = NoStats
    /\ NoPrediction
    /\ UNCHANGED <<page, predict_button, model_file, data_file, calc>>

\* Mutant of RunForm: the derived fields are those of the widgets' initial values,
\* as if computed once and kept.
M_RunForm_stale ==
    /\ pc = "rerun"
    /\ page = "Prediction"
    /\ LoadModel = "model"
    /\ pc' = "idle"
    /\ rendered' = "Prediction"
    /\ CallLoadModel
    /\ derived' = Locals(FormDefault)
    /\ stats' = NoStats
    /\ UNCHANGED <<page, form, predict_button, model_file, data_file, calc>>

\* What every run that renders the form shares.
RunForm ==
    /\ pc = "rerun"
    /\ page = "Prediction"
    /\ LoadModel = "model"
    /\ pc' = "idle"
    /\ rendered' = "Prediction"
    /\ CallLoadModel
    /\ derived' = Locals(form)
    /\ stats' = NoStats
    /\ UNCHANGED <<page, form, predict_button, model_file, data_file, calc>>

\* The form is rendered and the button was not pressed (or a tab raised).
RunPredictionForm ==
    /\ RunForm
    /\ ~predict_button \/ LocalsRaised(derived')
    /\ shown' = IF LocalsRaised(derived')
                THEN {"exception"}
                ELSE {"form", "predict_button"}
    /\ input_data' = NoRecord
    /\ calls' = <<>>
    /\ summary' = NoSummary
    /\ gauge' = NoGauge

\* The button was pressed and model.predict raises.
RunPredictionPredictRaises ==
    /\ RunForm
    /\ predict_button /\ ~LocalsRaised(derived')
    /\ input_data' = BuildInputData(form, derived')
    /\ calls' = <<PredictCall(input_data', TRUE, 0)>>
    /\ shown' = {"form", "predict_button", "prediction_error"}
    /\ summary' = NoSummary
    /\ gauge' = NoGauge

\* Mutant of RunPredictionProbaRaises: the decision is displayed between the calls.
M_RunPredictionProbaRaises_decision_first(label) ==
    /\ RunForm
    /\ predict_button /\ ~LocalsRaised(derived')
    /\ input_data' = BuildInputData(form, derived')
    /\ calls' = <<PredictCall(input_data', FALSE, label),
                  PredictProbaCall(input_data', TRUE, NumZero)>>
    /\ shown' = {"form", "predict_button", "prediction_error"}
                \cup (IF label = 1 THEN {"approved", "balloons"} ELSE {"rejected"})
    /\ summary' = NoSummary
    /\ gauge' = NoGauge

\* The button was pressed, model.predict returns and model.predict_proba raises.
RunPredictionProbaRaises(label) ==
    /\ RunForm
    /\ predict_button /\ ~LocalsRaised(derived')
    /\ input_data' = BuildInputData(form, derived')
    /\ calls' = <<PredictCall(input_data', FALSE, label),
                  PredictProbaCall(input_data', TRUE, NumZero)>>
    /\ shown' = {"form", "predict_button", "prediction_error"}
    /\ summary' = NoSummary
    /\ gauge' = NoGauge

\* Mutant of RunPredictionShown: predict is called a second time.
M_RunPredictionShown_predict_twice(label, p1) ==
    /\ RunForm
    /\ predict_button /\ ~LocalsRaised(derived')
    /\ input_data' = BuildInputData(form, derived')
    /\ calls' = <<PredictCall(input_data', FALSE, label),
                  PredictCall(input_data', FALSE, label),
                  PredictProbaCall(input_data', FALSE, p1)>>
    /\ shown' = {"form", "predict_button", "gauge", "summary"}
                \cup (IF label = 1 THEN {"approved", "balloons"} ELSE {"rejected"})
    /\ summary' = Summary(form, derived')
    /\ gauge' = Gauge(label, <<NumSub(NumOf(1), p1), p1>>)

\* Mutant of RunPredictionShown: the decision is taken from the probability.
M_RunPredictionShown_by_probability(label, p1) ==
    /\ RunForm
    /\ predict_button /\ ~LocalsRaised(derived')
    /\ input_data' = BuildInputData(form, derived')
    /\ calls' = <<PredictCall(input_data', FALSE, label),
                  PredictProbaCall(input_data', FALSE, p1)>>
    /\ shown' = {"form", "predict_button", "gauge", "summary"}
                \cup (IF NumLe(Frac(1, 2), p1) THEN {"approved", "balloons"} ELSE {"rejected"})
    /\ summary' = Summary(form, derived')
    /\ gauge' = Gauge(label, <<NumSub(NumOf(1), p1), p1>>)

\* The button was pressed and both calls return: the result is displayed.
RunPredictionShown(label, p1) ==
    /\ RunForm
    /\ predict_button /\ ~LocalsRaised(derived')
    /\ input_data' = BuildInputData(form, derived')
    /\ calls' = <<PredictCall(input_data', FALSE, label),
                  PredictProbaCall(input_data', FALSE, p1)>>
    /\ shown' = {"form", "predict_button", "gauge", "summary"}
                \cup (IF label = 1 THEN {"approved", "balloons"} ELSE {"rejected"})
    /\ summary' = Summary(form, derived')
    /\ gauge' = Gauge(label, <<NumSub(NumOf(1), p1), p1>>)

(***************************************************************************)
(* The application: a session starts with the first run of the script, on  *)
(* the radio's first page.                                                 *)
(***************************************************************************)
NoCall == [fn |-> "none"]

Init ==
    /\ page = "Home"
    /\ form = FormDefault
    /\ predict_button = FALSE
    /\ pc = "rerun"
    /\ model_file \in BOOLEAN
    /\ data_file \in Datasets \cup {NoFile}
    /\ model_cache = "unset"
    /\ data_cache = Unset
    /\ file_reads = [model |-> 0, data |-> 0]
    /\ rendered = "none"
    /\ shown = {}
    /\ derived = NoLocals
    /\ input_data = NoRecord
    /\ calls = <<>>
    /\ summary = NoSummary
    /\ gauge = NoGauge
    /\ stats = NoStats
    /\ calc = NoCall

Next ==
    \/ \E p \in Pages : SelectPage(p)
    \/ \E w \in Widgets : \E v \in Entered(w) \cup {FormDefault[w]} : SetInput(w, v)
    \/ PressPredict
    \/ RunHome
    \/ RunEDA
    \/ RunPresentation
    \/ RunPredictionNoModel
    \/ RunPredictionForm
    \/ RunPredictionPredictRaises
    \/ \E label \in Labels : RunPredictionProbaRaises(label)
    \/ \E label \in Labels : \E p1 \in Probabilities : RunPredictionShown(label, p1)

Spec == Init /\ [][Next]_vars

(***************************************************************************)
(* The derived-field expressions on their own: each is evaluated once on   *)
(* arguments that need not come from the form's widgets, which hold        *)
(* annual_income >= 15000 and keep monthly_rate above 0.                   *)
(***************************************************************************)
CalcIncomes == {-12000, 0, 1, 7, 12, 15000, 15001, 60000, 500000}
CalcDebts == {0, 50, 400, 1800, 3000}
CalcAmounts == {0, 10000, 20000, 25000, 50000}
CalcCreditScores == {343, 600, 700, 712, 850}
CalcBaseRates == {NumOf(0), Frac(30, 10), Frac(65, 10), Frac(150, 10)}
CalcPrincipals == {1200, 3674, 25000}
CalcMonthlyRates == {Frac(-1, 1200), NumOf(0), Frac(1, 100000), Frac(7, 1200), Frac(1, 2)}
CalcNumPayments == {1, 2, 12, 60}

\* A direct evaluation leaves the session as it is.
Call(fn, args, val) ==
    /\ calc' = [fn |-> fn, args |-> args, val |-> val]
    /\ UNCHANGED <<page, form, predict_button, pc, model_file, data_file, model_cache,
                   data_cache, file_reads, rendered, shown, derived, input_data,
                   calls, summary, gauge, stats>>

CalcMonthlyIncome(annual_income) ==
    /\ calc = NoCall
    /\ Call("monthly_income", <<annual_income>>, monthly_income(annual_income))

CalcNetWorth(total_assets, total_liabilities) ==
    /\ calc = NoCall
    /\ Call("net_worth", <<total_assets, total_liabilities>>,
            net_worth(total_assets, total_liabilities))

CalcDebtToIncome(monthly_debt, annual_income) ==
    /\ calc = NoCall
    /\ Call("debt_to_income", <<monthly_debt, annual_income>>,
            debt_to_income(monthly_debt, annual_income))

CalcTotalDebtToIncome(monthly_debt, annual_income) ==
    /\ calc = NoCall
    /\ Call("total_debt_to_income", <<monthly_debt, annual_income>>,
            total_debt_to_income(monthly_debt, annual_income))

CalcInterestRate(base_interest_rate, credit_score) ==
    /\ calc = NoCall
    /\ Call("interest_rate", <<base_interest_rate, credit_score>>,
            interest_rate(base_interest_rate, credit_score))

CalcMonthlyRate(base_interest_rate, credit_score) ==
    /\ calc = NoCall
    /\ Call("monthly_rate", <<base_interest_rate, credit_score>>,
            monthly_rate(interest_rate(base_interest_rate, credit_score)))

CalcMonthlyPayment(loan_amount, rate, num_payments) ==
    /\ calc = NoCall
    /\ Call("monthly_payment", <<loan_amount, rate, num_payments>>,
            monthly_payment(loan_amount, rate, num_payments))

\* Both debt ratios of one input, as the doubles the script computes.
CalcDebtRatios(monthly_debt, annual_income) ==
    /\ calc = NoCall
    /\ Call("debt_ratios", <<monthly_debt, annual_income>>,
            <<debt_to_income_double(monthly_debt, annual_income),
              total_debt_to_income_double(monthly_debt, annual_income)>>)

\* Monthly rates that are doubles: 2^-60, the doubles nearest to 0.000000001 and to
\* 7 / 1200, and 0.5.
CalcDoubleRates ==
    {Pow2(-60), Double(Frac(1, 10 ^ 9)), Double(Frac(7, 1200)), Frac(1, 2)}

CalcDoubleNumPayments == {1, 12}

CalcMonthlyPaymentDouble(loan_amount, rate, num_payments) ==
    /\ calc = NoCall
    /\ Call("monthly_payment_double", <<loan_amount, rate, num_payments>>,
            monthly_payment_double(loan_amount, rate, num_payments))

CalcNext ==
    \/ \E ai \in CalcIncomes : CalcMonthlyIncome(ai)
    \/ \E a \in CalcAmounts, l \in CalcAmounts : CalcNetWorth(a, l)
    \/ \E md \in CalcDebts, ai \in CalcIncomes : CalcDebtToIncome(md, ai)
    \/ \E md \in CalcDebts, ai \in CalcIncomes : CalcTotalDebtToIncome(md, ai)
    \/ \E md \in CalcDebts, ai \in CalcIncomes : CalcDebtRatios(md, ai)
    \/ \E b \in CalcBaseRates, cs \in CalcCreditScores : CalcInterestRate(b, cs)
    \/ \E b \in CalcBaseRates, cs \in CalcCreditScores : CalcMonthlyRate(b, cs)
    \/ \E la \in CalcPrincipals, r \in CalcMonthlyRates, n \in CalcNumPayments :
           CalcMonthlyPayment(la, r, n)
    \/ \E la \in CalcPrincipals, r \in CalcDoubleRates, n \in CalcDoubleNumPayments :
           CalcMonthlyPaymentDouble(la, r, n)

\* The direct evaluations start from a fresh session whose files are in place.
CalcInit == Init /\ model_file /\ data_file \in Datasets

CalcSpec == CalcInit /\ [][CalcNext]_vars

(***************************************************************************)
(* The 33 predictors the Presentation page documents, by category, under   *)
(* the dataset's column names.                                             *)
(***************************************************************************)
ExpectedFeatures ==
    {"Age", "EducationLevel", "MaritalStatus", "NumberOfDependents"}
    \cup {"EmploymentStatus", "Experience", "JobTenure", "AnnualIncome", "MonthlyIncome",
          "SavingsAccountBalance", "CheckingAccountBalance"}
    \cup {"CreditScore", "CreditCardUtilizationRate", "NumberOfOpenCreditLines",
          "NumberOfCreditInquiries", "PaymentHistory", "LengthOfCreditHistory",
          "UtilityBillsPaymentHistory", "TotalAssets", "TotalLiabilities", "NetWorth",
          "MonthlyDebtPayments", "DebtToIncomeRatio"}
    \cup {"LoanAmount", "LoanDuration", "LoanPurpose", "BaseInterestRate", "InterestRate",
          "MonthlyLoanPayment", "TotalDebtToIncomeRatio"}
    \cup {"BankruptcyHistory", "PreviousLoanDefaults", "HomeOwnershipStatus"}

(***************************************************************************)
(* Properties.                                                             *)
(***************************************************************************)
\* x to the cent: cents - 0.5 <= 100 * x < cents + 0.5
RoundsToCents(x, cents) ==
    /\ NumLe(Frac(cents * 10 - 5, 1000), x)
    /\ NumLt(x, Frac(cents * 10 + 5, 1000))

\* The balance left of principal after k payments of pay at the periodic rate:
\* each period adds the interest on the balance and takes the payment off.
RECURSIVE Balance(_, _, _, _)
Balance(principal, rate, pay, k) ==
    IF k = 0 THEN NumOf(principal)
    ELSE NumSub(NumMul(Balance(principal, rate, pay, k - 1), NumAdd(NumOf(1), rate)), pay)

\* C1: for annualIncome > 0 the debt-to-income ratio is monthlyDebtPayments divided
\* by the monthly income annualIncome / 12 (ratio * (annualIncome / 12) = monthlyDebt),
\* and for annualIncome = 0 it is 0.
C1_DebtToIncome ==
    calc.fn = "debt_to_income" =>
        LET md == calc.args[1]
            ai == calc.args[2]
        IN  /\ ai > 0 => NumEq(NumMul(calc.val, Frac(ai, 12)), NumOf(md))
            /\ ai = 0 => NumEq(calc.val, NumOf(0))

C1_Witness ==
    /\ calc.fn = "debt_to_income"
    /\ calc.args = <<400, 60000>>
    /\ NumEq(calc.val, Frac(8, 100))

\* C2: for annualIncome > 0 the total debt-to-income ratio is
\* (monthlyDebtPayments * 12) / annualIncome, and otherwise it is 0.
C2_TotalDebtToIncome ==
    calc.fn = "total_debt_to_income" =>
        LET md == calc.args[1]
            ai == calc.args[2]
        IN  /\ ai > 0 => NumEq(NumMul(calc.val, NumOf(ai)), NumOf(md * 12))
            /\ ai <= 0 => NumEq(calc.val, NumOf(0))

C2_Witness ==
    /\ calc.fn = "total_debt_to_income"
    /\ calc.args = <<1800, 60000>>
    /\ NumEq(calc.val, Frac(36, 100))

\* C3: for a monthly rate r > 0 and n >= 1 payments the monthly payment is
\* principal * (r * (1+r)^n) / ((1+r)^n - 1), the payment that brings the balance to
\* exactly 0 after n periods; 25000 at 7.0% a year over 60 months gives 495.03.
C3_Annuity ==
    calc.fn = "monthly_payment" =>
        LET principal == calc.args[1]
            r == calc.args[2]
            n == calc.args[3]
            growth == NumPow(NumAdd(NumOf(1), r), n)
        IN  NumLt(NumOf(0), r) /\ n >= 1 =>
                /\ NumEq(NumMul(calc.val, NumSub(growth, NumOf(1))),
                         NumMul(NumOf(principal), NumMul(r, growth)))
                /\ n <= 12 => NumEq(Balance(principal, r, calc.val, n), NumOf(0))
                /\ calc.args = <<25000, Frac(7, 1200), 60>> => RoundsToCents(calc.val, 49503)

C3_Witness ==
    /\ calc.fn = "monthly_payment"
    /\ calc.args = <<25000, monthly_rate(NumOf(7)), 60>>
    /\ RoundsToCents(calc.val, 49503)

\* C4: at a monthly rate of 0 the payment is principal / numPayments, and nothing is
\* raised: the annuity formula, whose divisor would be 0, is not evaluated;
\* 1200 over 12 payments gives exactly 100.
C4_ZeroRateFallback ==
    calc.fn = "monthly_payment" =>
        LET principal == calc.args[1]
            r == calc.args[2]
            n == calc.args[3]
        IN  NumEq(r, NumOf(0)) /\ n >= 1 =>
                /\ ~Raised(calc.val)
                /\ NumEq(NumMul(calc.val, NumOf(n)), NumOf(principal))
                /\ calc.args = <<1200, NumOf(0), 12>> => calc.val = NumOf(100)

C4_Witness ==
    /\ calc.fn = "monthly_payment"
    /\ calc.args = <<1200, NumOf(0), 12>>
    /\ calc.val = NumOf(100)

\* C5: the adjusted interest rate is baseRate + (700 - creditScore) / 100 * 0.5, that
\* is baseRate + (700 - creditScore) / 200, for every base rate and credit score, and
\* for 6.5 and 600 it is exactly 7.
C5_AdjustedInterestRate ==
    calc.fn = "interest_rate" =>
        LET base == calc.args[1]
            cs == calc.args[2]
        IN  /\ NumEq(calc.val, NumAdd(base, Frac(700 - cs, 200)))
            /\ calc.args = <<Frac(65, 10), 600>> => calc.val = NumOf(7)

C5_Witness ==
    /\ calc.fn = "interest_rate"
    /\ calc.args = <<Frac(65, 10), 600>>
    /\ calc.val = NumOf(7)

\* C6: the feature record's InterestRate is base + adjustment, unclamped, also when
\* it lies outside the slider's 3.0 .. 15.0, and its BaseInterestRate is the slider's
\* value.
C6_RateNotClamped ==
    input_data # NoRecord =>
        /\ NumEq(input_data.InterestRate,
                 NumAdd(form.base_interest_rate, Frac(700 - form.credit_score, 200)))
        /\ input_data.BaseInterestRate = form.base_interest_rate

C6_Witness ==
    /\ input_data # NoRecord
    /\ form.base_interest_rate = Frac(150, 10)
    /\ NumLt(NumOf(15), input_data.InterestRate)

\* C7: the feature record's NetWorth is totalAssets - totalLiabilities, negative
\* results included: it is not floored at 0.
C7_NetWorth ==
    input_data # NoRecord =>
        input_data.NetWorth = form.total_assets - form.total_liabilities

C7_Witness ==
    /\ input_data # NoRecord
    /\ form.total_assets < form.total_liabilities
    /\ input_data.NetWorth < 0

\* C8: for annualIncome > 0, monthlyIncome * 12 = annualIncome: the division by 12
\* neither rounds nor truncates.
C8_MonthlyIncomeTimes12 ==
    calc.fn = "monthly_income" /\ calc.args[1] > 0 =>
        NumEq(NumMul(calc.val, NumOf(12)), NumOf(calc.args[1]))

C8_Witness ==
    /\ calc.fn = "monthly_income"
    /\ calc.args = <<15001>>
    /\ NumEq(NumMul(calc.val, NumOf(12)), NumOf(15001))

\* C9: monthlyIncome is 0, and nothing is raised, when annualIncome = 0.
C9_MonthlyIncomeZero ==
    calc.fn = "monthly_income" /\ calc.args[1] = 0 =>
        ~Raised(calc.val) /\ NumEq(calc.val, NumOf(0))

C9_Witness ==
    /\ calc.fn = "monthly_income"
    /\ calc.args = <<0>>
    /\ calc.val = NumOf(0)

\* C10: every feature record holds exactly the 33 expected fields: none is missing,
\* none is extra, and no key of the dict literal is written twice.
C10_FeatureFields ==
    input_data # NoRecord =>
        /\ DOMAIN input_data = ExpectedFeatures
        /\ Cardinality(DOMAIN input_data) = 33
        /\ Len(InputDataItems(form, derived)) = Cardinality(DOMAIN input_data)

C10_Witness ==
    /\ input_data # NoRecord
    /\ form # FormDefault
    /\ Cardinality(DOMAIN input_data) = 33

\* The derived fields of the data model, under the names of the script's variables:
\* monthlyIncome, netWorth, debtToIncomeRatio, totalDebtToIncomeRatio,
\* interestRateAdjustment, adjustedInterestRate, monthlyPaymentRate, monthlyLoanPayment.
DerivedFields ==
    {"monthly_income", "net_worth", "debt_to_income", "total_debt_to_income",
     "interest_rate_adjustment", "interest_rate", "monthly_rate", "monthly_payment"}

\* C11 as stated: every column that comes from a widget carries exactly the value
\* the user entered, the two 0..100 scores included.
C11_NoRescaling ==
    input_data # NoRecord =>
        /\ \A w \in Widgets \ ScaledWidgets : input_data[InputColumn[w]] = form[w]
        /\ \A w \in ScaledWidgets : NumEq(input_data[InputColumn[w]], NumOf(form[w]))

\* C11, amended: every column that comes from a widget carries exactly the value the
\* user entered, except PaymentHistory and UtilityBillsPaymentHistory, which carry
\* the entered 0..100 score divided by 100.
C11_RescalesOnlyScores ==
    input_data # NoRecord =>
        /\ \A w \in Widgets \ ScaledWidgets : input_data[InputColumn[w]] = form[w]
        /\ \A w \in ScaledWidgets :
               NumEq(NumMul(input_data[InputColumn[w]], NumOf(100)), NumOf(form[w]))

C11_Witness ==
    /\ input_data # NoRecord
    /\ form.payment_history = 100
    /\ NumEq(input_data.PaymentHistory, NumOf(1))
    /\ NumEq(input_data.UtilityBillsPaymentHistory, Frac(90, 100))

\* C12 as stated: the record's columns are those of the widgets and of all eight
\* derived fields, each derived field's value being in its column, and no other.
C12_UnionOfAllDerived ==
    input_data # NoRecord =>
        /\ \A w \in Widgets : InputColumn[w] \in DOMAIN input_data
        /\ \A k \in DerivedFields :
               /\ k \in DOMAIN DerivedColumn
               /\ input_data[DerivedColumn[k]] = derived[k]
        /\ DOMAIN input_data = {InputColumn[w] : w \in Widgets}
                               \cup {DerivedColumn[k] : k \in DOMAIN DerivedColumn}

\* C12, amended: the record's columns are those of the 27 widgets and of six derived
\* fields (monthlyIncome, netWorth, debtToIncomeRatio, totalDebtToIncomeRatio,
\* adjustedInterestRate, monthlyLoanPayment), and no other; interestRateAdjustment
\* and monthlyPaymentRate are computed in the run but are in no column.
C12_UnionOfSixDerived ==
    input_data # NoRecord =>
        /\ \A w \in Widgets : InputColumn[w] \in DOMAIN input_data
        /\ \A k \in DerivedFields \ {"interest_rate_adjustment", "monthly_rate"} :
               /\ k \in DOMAIN DerivedColumn
               /\ input_data[DerivedColumn[k]] = derived[k]
        /\ derived.interest_rate_adjustment = interest_rate_adjustment(form.credit_score)
        /\ derived.monthly_rate = monthly_rate(derived.interest_rate)
        /\ DOMAIN input_data = {InputColumn[w] : w \in Widgets}
                               \cup {DerivedColumn[k] : k \in DOMAIN DerivedColumn}
        /\ Cardinality(DOMAIN input_data) = Cardinality(Widgets) + 6

C12_Witness ==
    /\ input_data # NoRecord
    /\ form.credit_score = 343
    /\ NumEq(derived.interest_rate_adjustment, Frac(357, 200))
    /\ "InterestRate" \in DOMAIN input_data
    /\ Cardinality(DOMAIN input_data) = 33

\* C13: end to end, the widgets' initial values (annual income 60000, assets 50000,
\* liabilities 20000, monthly debt 400, credit score 600, base rate 6.5, loan amount
\* 25000) with a loan duration of 60 months give a record with MonthlyIncome 5000,
\* NetWorth 30000, DebtToIncomeRatio 0.08, InterestRate 7.0 and MonthlyLoanPayment
\* 495.03 to the cent.
C13_EndToEnd ==
    input_data # NoRecord /\ form = [FormDefault EXCEPT !.loan_duration = 60] =>
        /\ NumEq(input_data.MonthlyIncome, NumOf(5000))
        /\ input_data.NetWorth = 30000
        /\ NumEq(input_data.DebtToIncomeRatio, Frac(8, 100))
        /\ NumEq(input_data.InterestRate, NumOf(7))
        /\ RoundsToCents(input_data.MonthlyLoanPayment, 49503)

C13_Witness ==
    /\ input_data # NoRecord
    /\ form.annual_income = 60000 /\ form.total_assets = 50000
    /\ form.total_liabilities = 20000 /\ form.monthly_debt = 400
    /\ form.credit_score = 600 /\ form.base_interest_rate = Frac(65, 10)
    /\ form.loan_amount = 25000 /\ form.loan_duration = 60
    /\ input_data.LoanDuration = 60
    /\ RoundsToCents(input_data.MonthlyLoanPayment, 49503)

\* C14: the derived-field expressions never raise: on every argument in the widgets'
\* ranges, and on annual_income = 0 and monthly_rate = 0, with num_payments >= 1,
\* monthly_income, the two debt ratios, the rates and monthly_payment return a number.
C14_NeverRaises ==
    /\ calc.fn \in {"monthly_income", "interest_rate", "monthly_rate"} => ~Raised(calc.val)
    /\ calc.fn \in {"debt_to_income", "total_debt_to_income"} /\ calc.args[2] >= 0 =>
           ~Raised(calc.val)
    /\ calc.fn = "monthly_payment" /\ NumLe(NumOf(0), calc.args[2]) /\ calc.args[3] >= 1 =>
           ~Raised(calc.val)

C14_Witness ==
    /\ calc.fn = "debt_to_income"
    /\ calc.args = <<400, 0>>
    /\ ~Raised(calc.val)

\* C15: the derived values of a record are those of the widget values of the run
\* that built it: whatever edits and runs came before, each derived column is the
\* derivation applied to the current inputs, and the record is the assembly of the
\* current inputs and their derived fields (so equal inputs give equal records).
C15_DerivedFromCurrentInputs ==
    input_data # NoRecord =>
        LET ir == interest_rate(form.base_interest_rate, form.credit_score)
        IN  /\ input_data.MonthlyIncome = monthly_income(form.annual_income)
            /\ input_data.NetWorth = net_worth(form.total_assets, form.total_liabilities)
            /\ input_data.DebtToIncomeRatio
                   = debt_to_income(form.monthly_debt, form.annual_income)
            /\ input_data.TotalDebtToIncomeRatio
                   = total_debt_to_income(form.monthly_debt, form.annual_income)
            /\ input_data.InterestRate = ir
            /\ input_data.MonthlyLoanPayment
                   = MonthlyPaymentOf[<<form.loan_amount, monthly_rate(ir), form.loan_duration>>]
            /\ input_data = BuildInputData(form, derived)

C15_Witness ==
    /\ input_data # NoRecord
    /\ form.annual_income = 15000
    /\ NumEq(input_data.MonthlyIncome, NumOf(1250))
    /\ NumEq(input_data.DebtToIncomeRatio, Frac(32, 100))

\* The elements that display a prediction's result.
ResultElements == {"approved", "balloons", "rejected", "gauge", "summary"}

\* How often the current run called the classifier's method fn.
CallsOf(fn) == Cardinality({i \in DOMAIN calls : calls[i].fn = fn})

\* C16: the classifier is called only in a run of the Prediction page with the model
\* loaded and the button pressed; the run a press triggers calls predict exactly once,
\* first, and predict_proba at most once, and a result is displayed only after both
\* calls have returned.
C16_OneCallPerPress ==
    /\ calls # <<>> =>
           /\ page = "Prediction" /\ rendered = "Prediction"
           /\ model_cache = "model"
           /\ predict_button
           /\ calls[1].fn = "predict"
    /\ pc = "idle" /\ predict_button =>
           /\ CallsOf("predict") = 1
           /\ CallsOf("predict_proba") <= 1
           /\ Len(calls) = CallsOf("predict") + CallsOf("predict_proba")
    /\ shown \cap ResultElements # {} =>
           /\ Len(calls) = 2
           /\ \A i \in DOMAIN calls : ~calls[i].raised

C16_Witness ==
    /\ pc = "idle" /\ predict_button
    /\ Len(calls) = 2
    /\ calls[2].fn = "predict_proba"
    /\ "gauge" \in shown

\* C17: when predict or predict_proba raises, the run ends with the one error
\* message: the failed call is the run's last, no method is called a second time,
\* and no decision, gauge or summary is displayed.
C17_FailureIsTerminal ==
    (\E i \in DOMAIN calls : calls[i].raised) =>
        /\ \A i \in DOMAIN calls : calls[i].raised <=> i = Len(calls)
        /\ \A i, j \in DOMAIN calls : i # j => calls[i].fn # calls[j].fn
        /\ "prediction_error" \in shown
        /\ shown \cap ResultElements = {}
        /\ summary = NoSummary
        /\ gauge = NoGauge

C17_Witness ==
    /\ Len(calls) = 2
    /\ ~calls[1].raised /\ calls[1].result = 1
    /\ calls[2].raised
    /\ "prediction_error" \in shown

\* C18: when CatBoost.pkl is missing, load_model returns None, and a run of the
\* Prediction page shows the errors and not the form, builds no record and does not
\* call the classifier.
C18_MissingModel ==
    rendered = "Prediction" /\ ~model_file =>
        /\ model_cache = "None"
        /\ {"load_model_error", "model_error"} \subseteq shown
        /\ "form" \notin shown /\ "predict_button" \notin shown
        /\ input_data = NoRecord
        /\ calls = <<>>

C18_Witness ==
    /\ rendered = "Prediction"
    /\ ~model_file
    /\ model_cache = "None"
    /\ "model_error" \in shown

\* C19: each file is read at most once in a session: whatever pages are visited and
\* predictions requested, a loader's cache, once filled, keeps its value, which is
\* what the file held, and the files themselves are never written.
C19_LoadedOnce ==
    [][/\ file_reads'.model <= 1 /\ file_reads'.data <= 1
       /\ model_cache # "unset" => model_cache' = model_cache
       /\ data_cache # Unset => data_cache' = data_cache
       /\ model_cache' # "unset" => model_cache' = (IF model_file THEN "model" ELSE "None")
       /\ data_cache' # Unset => data_cache' = (IF data_file = NoFile THEN None ELSE data_file)
       /\ model_file' = model_file /\ data_file' = data_file]_vars

C19_Witness ==
    /\ calls # <<>>
    /\ file_reads = [model |-> 1, data |-> 1]
    /\ model_cache = "model"
    /\ data_cache # Unset

\* C20: after a prediction whose two calls returned, "LOAN APPROVED" is displayed
\* if and only if predict returned 1 and "LOAN REJECTED" if and only if it did not,
\* whatever predict_proba returned.
C20_DecisionFollowsPredict ==
    Len(calls) = 2 /\ (\A i \in DOMAIN calls : ~calls[i].raised) =>
        /\ "approved" \in shown <=> calls[1].result = 1
        /\ "rejected" \in shown <=> calls[1].result # 1
        /\ "balloons" \in shown <=> calls[1].result = 1

C20_Witness ==
    /\ Len(calls) = 2
    /\ ~calls[2].raised
    /\ calls[1].result = 1
    /\ NumLt(calls[2].result[2], Frac(1, 2))
    /\ "approved" \in shown /\ "rejected" \notin shown

\* C21: the record is built anew by each run that predicts: predict and
\* predict_proba are passed the same record, which is the one the run built from its
\* own widget values and which is unchanged after the calls; an event that queues
\* the next run leaves no record behind.
C21_FreshRecord ==
    /\ calls # <<>> =>
           /\ input_data # NoRecord
           /\ \A i \in DOMAIN calls : calls[i].arg = input_data
           /\ \A w \in Widgets \ ScaledWidgets : input_data[InputColumn[w]] = form[w]
    /\ pc = "rerun" => input_data = NoRecord /\ calls = <<>>
    /\ ~predict_button => input_data = NoRecord

C21_Witness ==
    /\ Len(calls) = 2
    /\ calls[1].arg = calls[2].arg
    /\ calls[2].arg.LoanAmount = 200000
    /\ form.loan_amount = 200000

\* C22: the record's PaymentHistory and UtilityBillsPaymentHistory are the sliders'
\* 0..100 scores divided by 100, so both lie between 0 and 1 inclusive.
C22_ScoresAsFractions ==
    input_data # NoRecord =>
        /\ NumEq(input_data.PaymentHistory, Frac(form.payment_history, 100))
        /\ NumEq(input_data.UtilityBillsPaymentHistory, Frac(form.utility_bills_payment, 100))
        /\ NumLe(NumOf(0), input_data.PaymentHistory)
        /\ NumLe(input_data.PaymentHistory, NumOf(1))
        /\ NumLe(NumOf(0), input_data.UtilityBillsPaymentHistory)
        /\ NumLe(input_data.UtilityBillsPaymentHistory, NumOf(1))

C22_Witness ==
    /\ input_data # NoRecord
    /\ form.utility_bills_payment = 0
    /\ NumEq(input_data.UtilityBillsPaymentHistory, NumOf(0))
    /\ NumEq(input_data.PaymentHistory, Frac(85, 100))

\* C23 as stated: for every input the two debt ratios the script computes are equal.
C23_RatiosEqual ==
    calc.fn = "debt_ratios" => NumEq(calc.val[1], calc.val[2])

\* C23, amended: the two debt ratios are the same quantity and are 0 under the same
\* guard, but as computed doubles they are equal only up to rounding: for
\* annual_income > 0 they differ by at most 2^-51 of their value, and they do differ
\* for some inputs (monthly debt 400, annual income 500000).
C23_RatiosEqualUpToRounding ==
    calc.fn = "debt_ratios" =>
        LET md == calc.args[1]
            ai == calc.args[2]
            a == calc.val[1]
            b == calc.val[2]
            gap == IF NumLt(a, b) THEN NumSub(b, a) ELSE NumSub(a, b)
        IN  /\ ai <= 0 => a = NumOf(0) /\ b = NumOf(0)
            /\ ai > 0 =>
                   /\ NumEq(debt_to_income(md, ai), total_debt_to_income(md, ai))
                   /\ NumLe(gap, NumMul(b, Pow2(-51)))
                   /\ NumLe(gap, NumMul(a, Pow2(-51)))
                   /\ md > 0 => NumLt(NumOf(0), a) /\ NumLt(NumOf(0), b)

C23_Witness ==
    /\ calc.fn = "debt_ratios"
    /\ calc.args = <<400, 500000>>
    /\ NumLt(calc.val[2], calc.val[1])
    /\ NumEq(calc.val[2], Double(Frac(96, 10000)))

\* C24: for every base rate and credit score the widgets accept (3.0 .. 15.0 and
\* 343 .. 712), the adjusted interest rate and the monthly rate are above 0, so
\* monthly_payment takes the annuity formula and not principal / num_payments.
C24_RatePositive ==
    /\ calc.fn \in {"interest_rate", "monthly_rate"}
    /\ WidgetAccepts("base_interest_rate", calc.args[1])
    /\ WidgetAccepts("credit_score", calc.args[2])
    => /\ NumLt(NumOf(0), calc.val)
       /\ calc.fn = "monthly_rate" =>
              NumLt(NumOf(100), monthly_payment(1200, calc.val, 12))

C24_Witness ==
    /\ calc.fn = "monthly_rate"
    /\ calc.args = <<Frac(30, 10), 712>>
    /\ NumEq(calc.val, Frac(294, 120000))

\* C25: for a monthly rate below 0, as for 0, the payment is principal /
\* num_payments; the annuity formula is evaluated for a rate above 0 only, where its
\* value is another.
C25_FallbackForNegativeRate ==
    calc.fn = "monthly_payment" /\ calc.args[3] >= 1 =>
        LET principal == calc.args[1]
            r == calc.args[2]
            n == calc.args[3]
        IN  /\ NumLe(r, NumOf(0)) => calc.val = NumDiv(NumOf(principal), NumOf(n))
            /\ NumLt(NumOf(0), r) => ~NumEq(calc.val, NumDiv(NumOf(principal), NumOf(n)))

C25_Witness ==
    /\ calc.fn = "monthly_payment"
    /\ calc.args = <<1200, Frac(-1, 1200), 12>>
    /\ calc.val = NumOf(100)

PageElements(p) ==
    CASE p = "Home" -> {"home"}
      [] p = "EDA" -> {"eda_tabs", "eda_metrics", "eda_charts", "load_data_warning",
                       "eda_error"}
      [] p = "Prediction" -> {"form", "predict_button", "load_model_error", "model_error",
                              "prediction_error", "exception"} \cup ResultElements
      [] p = "Presentation" -> {"presentation_tabs", "load_data_warning"}

\* C27: every run renders the one page the sidebar selects, and that page's elements
\* only; a run reads the model file only on the Prediction page and the dataset
\* only on the EDA and Presentation pages, so a run of Home loads neither.
C27_OnePagePerRun ==
    [][/\ pc = "rerun" /\ pc' = "idle" =>
              /\ rendered' = page
              /\ page' = page
              /\ shown' # {}
              /\ shown' \subseteq PageElements(page)
       /\ model_cache' # model_cache \/ file_reads'.model # file_reads.model =>
              page = "Prediction"
       /\ data_cache' # data_cache \/ file_reads'.data # file_reads.data =>
              page \in {"EDA", "Presentation"}]_vars

C27_Witness ==
    /\ pc = "idle"
    /\ rendered = "Home"
    /\ shown = {"home"}
    /\ model_cache = "unset"
    /\ data_cache = Unset
    /\ file_reads = [model |-> 0, data |-> 0]

\* C28: when Loan_Data_Cleaned.csv is missing, load_data returns None; the EDA page
\* then displays the warning and the error and no tab, metric or chart, and the
\* Presentation page is rendered with total_records = 20000 and approval_rate = 23.9.
C28_MissingDataset ==
    data_file = NoFile =>
        /\ rendered = "EDA" =>
               /\ data_cache = None
               /\ "eda_error" \in shown
               /\ shown \subseteq {"load_data_warning", "eda_error"}
        /\ rendered = "Presentation" =>
               /\ data_cache = None
               /\ "presentation_tabs" \in shown
               /\ stats # NoStats
               /\ stats.total_records = 20000
               /\ NumEq(stats.approval_rate, Frac(239, 10))

C28_Witness ==
    /\ data_file = NoFile
    /\ rendered = "Presentation"
    /\ data_cache = None
    /\ stats # NoStats
    /\ stats.total_records = 20000

\* C29: in the displayed Application Summary, net worth is labelled "Positive" if
\* and only if assets exceed liabilities (0 is "Negative"), debt-to-income "Good" if
\* and only if monthly_debt * 12 / annual_income < 0.36 (0.36 is "High"), and the
\* credit score "Good" if and only if it is at least 600; the other labels are
\* "Negative", "High" and "Fair".
C29_SummaryLabels ==
    summary # NoSummary =>
        /\ summary.net_worth = "Positive" <=> form.total_assets > form.total_liabilities
        /\ summary.net_worth \in {"Positive", "Negative"}
        /\ summary.debt_to_income = "Good"
               <=> form.monthly_debt * 12 * 100 < 36 * form.annual_income
        /\ summary.debt_to_income \in {"Good", "High"}
        /\ summary.credit_score = "Good" <=> form.credit_score >= 600
        /\ summary.credit_score \in {"Good", "Fair"}

C29_Witness ==
    /\ summary # NoSummary
    /\ form.total_assets = form.total_liabilities
    /\ summary.net_worth = "Negative"
    /\ summary.credit_score = "Good"

====
